---- MODULE Spec2Model ----
(***************************************************************************)
(* Order-ID validated merge of shipping labels and manufacturing labels    *)
(* (amazon_blanket_orders_v8.py): extract_order_ids_from_shipping_pdf,     *)
(* validate_label_mapping and merge_shipping_and_manufacturing_labels_safe.*)
(*                                                                         *)
(* Page indices are 0-based as in the Python code; TLA+ sequences are      *)
(* 1-based, so page index i of a PDF p is p[i + 1].                        *)
(***************************************************************************)
EXTENDS Integers, Sequences, FiniteSets, TLC

\* ---------------------------------------------------------------- bounds
NumOrders == 2      \* distinct Order IDs that can appear anywhere
MaxRows   == 3      \* rows of the order table (line items)
MaxShip   == 2      \* pages of the shipping-label PDF
MaxSlips  == 2      \* packing slips the user of one UI session has
MaxShipFiles == 2   \* shipping PDFs (besides an empty one) that user has
FetchPageSize == 1  \* records in one page of the Airtable list response
MaxText   == 6      \* characters of a string passed to clean_text

\* Python None, the order_id of a page without an Order ID match.
None == 0

OrderIds == 1..NumOrders

Modes == {"strict", "flexible"}

VARIABLES
    df,         \* the 'Order ID' column of the order table, one entry per row
    shipping,   \* shipping PDF: per page, a record (see ShippingPages)
    mfg,        \* manufacturing PDF: per page, the Order ID printed on it
    pc,         \* "start" -> "validated" -> "merged"
    report,     \* validation_report
    readers,    \* which PDFs the merge has opened with PdfReader
    result,     \* what merge_shipping_and_manufacturing_labels_safe returned
    unopenable, \* the uploaded PDFs that cannot be opened as a PDF at all
    session,    \* st.session_state and the widgets of the Label Merge section
    at,         \* the Airtable base: its Orders and Line Items tables
    up,         \* the run of upload_to_airtable in progress
    text        \* a string passed through clean_text

vars == <<df, shipping, mfg, pc, report, readers, result, unopenable, session, at, up, text>>

\* The variables the validate / merge pipeline leaves alone.
outside == <<session, at, up, text>>

\* ------------------------------------------------------------- helpers
\* Sequences over S of length lo..hi.
SeqsOf(S, lo, hi) == UNION {[1..n -> S] : n \in lo..hi}

\* Variant: the end index is included.
RangeInclusive(a, b) == [i \in 1..(IF b >= a THEN b - a + 1 ELSE 0) |-> a + i - 1]

\* list(range(a, b))
Range(a, b) == [i \in 1..(IF b > a THEN b - a ELSE 0) |-> a + i - 1]

\* x in list
InList(x, s) == \E i \in 1..Len(s) : s[i] = x

\* A Python dict keeps insertion order; it is a sequence of [key, val].
DictHas(d, k) == \E i \in 1..Len(d) : d[i].key = k

DictGet(d, k) == d[CHOOSE i \in 1..Len(d) : d[i].key = k].val

\* d[k] = v : overwrite in place when the key exists, append otherwise.
DictSet(d, k, v) ==
    IF DictHas(d, k)
    THEN [i \in 1..Len(d) |-> IF d[i].key = k THEN [key |-> k, val |-> v] ELSE d[i]]
    ELSE Append(d, [key |-> k, val |-> v])

\* -------------------------------------------- generate_manufacturing_labels
\* Variant: showPage() after the loop, so every row is drawn on one page.
generate_labels_on_one_page(dataframe) ==
    IF dataframe = <<>> THEN <<>> ELSE <<dataframe[1]>>

\* One page per row, in row order; the page prints the row's Order ID.
generate_manufacturing_labels(dataframe) ==
    [i \in 1..Len(dataframe) |-> dataframe[i]]

\* ------------------------------------- extract_order_ids_from_shipping_pdf
\* Variant: pages are numbered from 1, as the report shows them.
extract_order_ids_1based(pdf) ==
    [i \in 1..Len(pdf) |->
        [page_idx |-> i,
         order_id |-> IF pdf[i].matches # <<>> THEN pdf[i].matches[1] ELSE None]]

\* Per page: (page_idx, first match of the Order ID pattern or None).
\* Variant: a page without a text match falls back on the Order ID read
\* from its embedded image.
extract_order_ids_with_image_fallback(pdf) ==
    [i \in 1..Len(pdf) |->
        [page_idx |-> i - 1,
         order_id |-> IF pdf[i].matches # <<>> THEN pdf[i].matches[1]
                      ELSE pdf[i].image]]

extract_order_ids_from_shipping_pdf(pdf) ==
    [i \in 1..Len(pdf) |->
        [page_idx |-> i - 1,
         order_id |-> IF pdf[i].matches # <<>> THEN pdf[i].matches[1] ELSE None]]

\* pdfplumber.open(...) and PdfReader(...) raise on a file that is no PDF.
CanOpen(which) == which \notin unopenable

\* The try / except around the whole loop: when the PDF cannot be opened or
\* extract_text raises on a page, the error is shown and [] is returned.
ExtractionRaises(pdf) ==
    ~CanOpen("shipping") \/ \E i \in 1..Len(pdf) : pdf[i].raises

extract_order_ids_or_empty(pdf) ==
    IF ExtractionRaises(pdf) THEN <<>>
    ELSE extract_order_ids_from_shipping_pdf(pdf)

\* ------------------------------------------------- validate_label_mapping
\* The report as it is before any step has run.
EmptyReport ==
    [is_valid          |-> FALSE,
     shipping_labels   |-> <<>>,
     expected_orders   |-> <<>>,
     matched_orders    |-> <<>>,
     missing_labels    |-> <<>>,
     extra_labels      |-> <<>>,
     unreadable_labels |-> <<>>,
     mapping           |-> <<>>,
     warnings          |-> <<>>,
     errors            |-> <<>>]

\* Step 1: page indices whose order_id is None.
RECURSIVE UnreadableLabels(_, _)
UnreadableLabels(shipping_labels, n) ==
    IF n = 0 THEN <<>>
    ELSE LET prev == UnreadableLabels(shipping_labels, n - 1)
             lab  == shipping_labels[n]
         IN  IF lab.order_id = None THEN Append(prev, lab.page_idx) ELSE prev

\* Step 2: Order IDs of the table in first-appearance order, without repeats.
RECURSIVE SeenOrders(_, _)
SeenOrders(column, n) ==
    IF n = 0 THEN <<>>
    ELSE LET prev == SeenOrders(column, n - 1)
         IN  IF InList(column[n], prev) THEN prev ELSE Append(prev, column[n])

\* len(order_dataframe[order_dataframe['Order ID'] == order_id])
OrderItemCount(column, order_id) ==
    Cardinality({i \in 1..Len(column) : column[i] = order_id})

\* Step 3: shipping_order_map[order_id] = page_idx for every readable label.
RECURSIVE ShippingOrderMap(_, _)
ShippingOrderMap(shipping_labels, n) ==
    IF n = 0 THEN <<>>
    ELSE LET prev == ShippingOrderMap(shipping_labels, n - 1)
             lab  == shipping_labels[n]
         IN  IF lab.order_id # None
             THEN DictSet(prev, lab.order_id, lab.page_idx)
             ELSE prev

\* Step 4: expected orders with / without a shipping label.
RECURSIVE MatchedOrders(_, _, _)
MatchedOrders(seen_orders, shipping_order_map, n) ==
    IF n = 0 THEN <<>>
    ELSE LET prev == MatchedOrders(seen_orders, shipping_order_map, n - 1)
         IN  IF DictHas(shipping_order_map, seen_orders[n])
             THEN Append(prev, seen_orders[n]) ELSE prev

RECURSIVE MissingLabels(_, _, _)
MissingLabels(seen_orders, shipping_order_map, n) ==
    IF n = 0 THEN <<>>
    ELSE LET prev == MissingLabels(seen_orders, shipping_order_map, n - 1)
         IN  IF DictHas(shipping_order_map, seen_orders[n])
             THEN prev ELSE Append(prev, seen_orders[n])

\* Shipping-label Order IDs that are not in the order table.
RECURSIVE ExtraLabels(_, _, _)
ExtraLabels(seen_orders, shipping_order_map, n) ==
    IF n = 0 THEN <<>>
    ELSE LET prev == ExtraLabels(seen_orders, shipping_order_map, n - 1)
         IN  IF InList(shipping_order_map[n].key, seen_orders)
             THEN prev ELSE Append(prev, shipping_order_map[n].key)

\* Variant: mfg_index advances only past orders that have a shipping label.
AdvanceMfgIndexIfLabelled(mfg_index, item_count, has_label) ==
    IF has_label THEN mfg_index + item_count ELSE mfg_index

\* Variant: mfg_index advances by one page per order.
AdvanceMfgIndexByOne(mfg_index, item_count, has_label) == mfg_index + 1

\* "Always increment mfg_index to maintain alignment"
AdvanceMfgIndex(mfg_index, item_count, has_label) == mfg_index + item_count

\* Step 5: the mapping, and mfg_index, after the first n expected orders.
RECURSIVE MappingLoop(_, _, _, _)
MappingLoop(seen_orders, shipping_order_map, column, n) ==
    IF n = 0 THEN [mapping |-> <<>>, mfg_index |-> 0]
    ELSE LET prev       == MappingLoop(seen_orders, shipping_order_map, column, n - 1)
             order_id   == seen_orders[n]
             item_count == OrderItemCount(column, order_id)
             has_label  == DictHas(shipping_order_map, order_id)
             info       == [shipping_page |-> DictGet(shipping_order_map, order_id),
                            mfg_pages     |-> Range(prev.mfg_index,
                                                    prev.mfg_index + item_count),
                            item_count    |-> item_count]
         IN  [mapping   |-> IF has_label
                            THEN DictSet(prev.mapping, order_id, info)
                            ELSE prev.mapping,
              mfg_index |-> AdvanceMfgIndex(prev.mfg_index, item_count, has_label)]

\* Variant: unreadable shipping pages do not fail the validation.
IsValidIgnoringUnreadable(missing_labels, unreadable_labels) ==
    Len(missing_labels) = 0

\* Variant: orders without a shipping label do not fail the validation.
IsValidIgnoringMissing(missing_labels, unreadable_labels) ==
    Len(unreadable_labels) = 0

\* Step 6
IsValid(missing_labels, unreadable_labels) ==
    Len(missing_labels) = 0 /\ Len(unreadable_labels) = 0

validate_label_mapping(shipping_pdf, column) ==
    LET shipping_labels    == extract_order_ids_or_empty(shipping_pdf)
        unreadable         == UnreadableLabels(shipping_labels, Len(shipping_labels))
        seen_orders        == SeenOrders(column, Len(column))
        shipping_order_map == ShippingOrderMap(shipping_labels, Len(shipping_labels))
        matched            == MatchedOrders(seen_orders, shipping_order_map,
                                            Len(seen_orders))
        missing            == MissingLabels(seen_orders, shipping_order_map,
                                            Len(seen_orders))
        extra              == ExtraLabels(seen_orders, shipping_order_map,
                                          Len(shipping_order_map))
        loop               == MappingLoop(seen_orders, shipping_order_map, column,
                                          Len(seen_orders))
    IN  [is_valid          |-> IsValid(missing, unreadable),
         shipping_labels   |-> shipping_labels,
         expected_orders   |-> seen_orders,
         matched_orders    |-> matched,
         missing_labels    |-> missing,
         extra_labels      |-> extra,
         unreadable_labels |-> unreadable,
         mapping           |-> loop.mapping,
         \* one warning per unreadable page, then one per extra label
         warnings          |-> [i \in 1..Len(unreadable) |->
                                   [kind |-> "unreadable", ref |-> unreadable[i]]]
                               \o [i \in 1..Len(extra) |->
                                   [kind |-> "extra", ref |-> extra[i]]],
         \* one error per order without a shipping label
         errors            |-> missing]

\* --------------------------- merge_shipping_and_manufacturing_labels_safe
\* A page of the output document: which PDF it was copied from, and its index.
ShipPage(idx) == [src |-> "shipping", idx |-> idx]

MfgPage(idx) == [src |-> "manufacturing", idx |-> idx]

\* Inner loop: the manufacturing pages of one order that exist in the PDF,
\* and one warning per index that is out of range (first n indices).
RECURSIVE AddMfgPages(_, _, _, _)
AddMfgPages(order_id, mfg_pages, manufacturing_pdf, n) ==
    IF n = 0 THEN [pages |-> <<>>, log |-> <<>>]
    ELSE LET prev    == AddMfgPages(order_id, mfg_pages, manufacturing_pdf, n - 1)
             mfg_idx == mfg_pages[n]
         IN  IF mfg_idx < Len(manufacturing_pdf)
             THEN [pages |-> Append(prev.pages, MfgPage(mfg_idx)),
                   log   |-> prev.log]
             ELSE [pages |-> prev.pages,
                   log   |-> Append(prev.log,
                                [kind |-> "mfg_out_of_range", order_id |-> order_id,
                                 page |-> mfg_idx])]

\* Variant: one entry per readable shipping label of a mapped order, in
\* shipping-page order (the loop driven by the labels instead of the mapping).
RECURSIVE EntriesPerLabel(_, _)
EntriesPerLabel(validation_report, n) ==
    IF n = 0 THEN <<>>
    ELSE LET prev == EntriesPerLabel(validation_report, n - 1)
             lab  == validation_report.shipping_labels[n]
         IN  IF DictHas(validation_report.mapping, lab.order_id)
             THEN Append(prev, [key |-> lab.order_id,
                                val |-> DictGet(validation_report.mapping,
                                                lab.order_id)])
             ELSE prev

MergeEntriesPerLabel(validation_report) ==
    EntriesPerLabel(validation_report, Len(validation_report.shipping_labels))

\* Variant: the mapping walked in ascending shipping-page order.
MergeEntriesByShippingPage(validation_report) ==
    LET m == validation_report.mapping
        Rank(j) == Cardinality({l \in 1..Len(m) :
                        m[l].val.shipping_page < m[j].val.shipping_page})
    IN  [i \in 1..Len(m) |-> m[CHOOSE j \in 1..Len(m) : Rank(j) = i - 1]]

\* The entries the merge loop walks: validation_report['mapping'].items()
MergeEntries(validation_report) == validation_report.mapping

\* Variant: the order's item count is added, whether or not its pages exist.
LabelsAddedByItemCount(pages, item_count) == item_count

\* mfg_labels_added += 1 for every page that was added.
LabelsAdded(pages, item_count) == Len(pages)

\* Outer loop: the writer state after the first n entries of the mapping.
RECURSIVE MergeLoop(_, _, _, _)
MergeLoop(entries, shipping_pdf, manufacturing_pdf, n) ==
    IF n = 0
    THEN [output |-> <<>>, merged_count |-> 0, mfg_labels_added |-> 0,
          merge_log |-> <<>>]
    ELSE LET prev     == MergeLoop(entries, shipping_pdf, manufacturing_pdf, n - 1)
             order_id == entries[n].key
             info     == entries[n].val
             added    == AddMfgPages(order_id, info.mfg_pages, manufacturing_pdf,
                                     Len(info.mfg_pages))
         IN  IF info.shipping_page >= Len(shipping_pdf)
             THEN [prev EXCEPT !.merge_log =
                       Append(@, [kind |-> "shipping_out_of_range",
                                  order_id |-> order_id, page |-> info.shipping_page])]
             ELSE [output           |-> Append(prev.output, ShipPage(info.shipping_page))
                                        \o added.pages,
                   merged_count     |-> prev.merged_count + 1,
                   mfg_labels_added |-> prev.mfg_labels_added
                                        + LabelsAdded(added.pages, info.item_count),
                   merge_log        |-> prev.merge_log \o added.log
                                        \o <<[kind |-> "merged", order_id |-> order_id,
                                              page |-> Len(added.pages)]>>]

\* Nothing has been returned yet.
NoResult ==
    [returned |-> FALSE, mode |-> "", has_buffer |-> FALSE, output |-> <<>>,
     num_shipping |-> 0, num_manufacturing |-> 0, success |-> FALSE,
     merge_log |-> <<>>, skipped_orders |-> <<>>, details |-> <<>>]

\* STRICT mode with a failed validation: (None, 0, 0, {'success': False, ...})
StrictRefusal(validation_report) ==
    [returned |-> TRUE, mode |-> "strict", has_buffer |-> FALSE, output |-> <<>>,
     num_shipping |-> 0, num_manufacturing |-> 0, success |-> FALSE,
     merge_log |-> <<>>, skipped_orders |-> <<>>,
     details |-> validation_report.errors]

\* The guard of the early return.
Refuses(validation_report, mode) ==
    mode = "strict" /\ ~validation_report.is_valid

\* Variant: only the shipping PDF is opened before the loop.
ReaderRaisesShippingOnly == ~CanOpen("shipping")

\* PdfReader(shipping_pdf_bytes) or PdfReader(manufacturing_pdf_bytes) raises.
ReaderRaises == ~CanOpen("shipping") \/ ~CanOpen("manufacturing")

\* except Exception: (None, 0, 0, {'success': False, ...})
MergeError(mode) ==
    [returned |-> TRUE, mode |-> mode, has_buffer |-> FALSE, output |-> <<>>,
     num_shipping |-> 0, num_manufacturing |-> 0, success |-> FALSE,
     merge_log |-> <<>>, skipped_orders |-> <<>>, details |-> <<>>]

\* The PDFs the merge has opened when it returns.
ReadersOpened(validation_report, mode) ==
    IF Refuses(validation_report, mode) THEN {}
    ELSE IF ~CanOpen("shipping") THEN {}
    ELSE IF ~CanOpen("manufacturing") THEN {"shipping"}
    ELSE {"shipping", "manufacturing"}

merge_shipping_and_manufacturing_labels_safe(shipping_pdf, manufacturing_pdf, validation_report, mode) ==
    IF Refuses(validation_report, mode)
    THEN StrictRefusal(validation_report)
    ELSE IF ReaderRaises
    THEN MergeError(mode)
    ELSE LET entries == MergeEntries(validation_report)
             loop    == MergeLoop(entries, shipping_pdf, manufacturing_pdf,
                                  Len(entries))
         IN  [returned |-> TRUE, mode |-> mode, has_buffer |-> TRUE,
              output            |-> loop.output,
              num_shipping      |-> loop.merged_count,
              num_manufacturing |-> loop.mfg_labels_added,
              success           |-> TRUE,
              merge_log         |-> loop.merge_log,
              skipped_orders    |-> validation_report.missing_labels,
              details           |-> <<>>]

\* ------------------------------------------------------------ state machine
\* A shipping page: the Order ID matches in its extracted text (none or one),
\* whether extract_text raises on it, and the Order ID it shows only in an
\* embedded image (None when it has no such image).
TextPage(matches) == [matches |-> matches, raises |-> FALSE, image |-> None]

ShippingPages == {TextPage(<<>>)} \cup {TextPage(<<o>>) : o \in OrderIds}

\* The manufacturing PDF is the one generated from the table, or a shorter
\* one (generation truncated: fewer pages than rows).
ManufacturingPdfs(column) ==
    {SubSeq(generate_manufacturing_labels(column), 1, k) : k \in 0..Len(column)}

\* No Label Merge session, no Airtable base and no upload are involved.
NoSession == [active |-> FALSE]

NoAirtable == [active |-> FALSE]

NoUpload == [active |-> FALSE]

NoText == [active |-> FALSE]

Init ==
    /\ df \in SeqsOf(OrderIds, 1, MaxRows)
    /\ shipping \in SeqsOf(ShippingPages, 0, MaxShip)
    /\ mfg \in ManufacturingPdfs(df)
    /\ pc = "start"
    /\ report = EmptyReport
    /\ readers = {}
    /\ result = NoResult
    /\ unopenable = {}
    /\ session = NoSession
    /\ at = NoAirtable
    /\ up = NoUpload
    /\ text = NoText

\* "Validate Shipping Labels"
Validate ==
    /\ pc = "start"
    /\ report' = validate_label_mapping(shipping, df)
    /\ pc' = "validated"
    /\ UNCHANGED <<df, shipping, mfg, readers, result, unopenable, outside>>

\* "CONFIRM AND MERGE LABELS" in the given mode
Merge(mode) ==
    /\ pc = "validated"
    /\ result' = merge_shipping_and_manufacturing_labels_safe(shipping, mfg,
                                                              report, mode)
    /\ readers' = ReadersOpened(report, mode)
    /\ pc' = "merged"
    /\ UNCHANGED <<df, shipping, mfg, report, unopenable, outside>>

Next ==
    \/ Validate
    \/ \E mode \in Modes : Merge(mode)

Spec == Init /\ [][Next]_vars

\* =================================================================
\* Properties.  The vocabulary below is stated on the inputs (df, shipping,
\* mfg) and on the returned output, independently of how the report is built.
\* =================================================================

\* A merge has returned an output document.
Merged == pc = "merged" /\ result.success /\ result.has_buffer

Out == result.output

\* The manufacturing PDF has one page per row of the table.
CompletePdf == mfg = generate_manufacturing_labels(df)

\* Positions of the output that hold shipping / manufacturing pages.
ShipPos == {k \in 1..Len(Out) : Out[k].src = "shipping"}

MfgPos == {k \in 1..Len(Out) : Out[k].src = "manufacturing"}

\* The Order ID read from shipping page i (0-based), None when unreadable.
KeyOfShippingPage(i) ==
    IF shipping[i + 1].matches = <<>> THEN None ELSE shipping[i + 1].matches[1]

ShippingIdx == 0..(Len(shipping) - 1)

MfgIdx == 0..(Len(mfg) - 1)

\* The orders of the order table, and those some shipping page carries.
TableOrders == {df[i] : i \in 1..Len(df)}

Labelled(o) == \E i \in ShippingIdx : KeyOfShippingPage(i) = o

\* Row (1-based) where an order first appears in the table.
FirstRow(o) == CHOOSE i \in 1..Len(df) :
                   df[i] = o /\ \A j \in 1..(i - 1) : df[j] # o

\* The manufacturing pages (0-based) rendered from the rows of order o.
PagesOfOrder(o) == {j \in MfgIdx : mfg[j + 1] = o}

\* The block of page indices the validation assigns to order o: as many
\* indices as o has rows, starting after the blocks of the orders that
\* first appear before o.
BlockStart(o) ==
    Cardinality({i \in 1..Len(df) : FirstRow(df[i]) < FirstRow(o)})

Block(o) ==
    {j \in MfgIdx : /\ j >= BlockStart(o)
                    /\ j < BlockStart(o) + Cardinality({i \in 1..Len(df) : df[i] = o})}

\* Indices of the manufacturing pages the output holds.
MfgEmitted == {Out[k].idx : k \in MfgPos}

ShipEmitted == {Out[k].idx : k \in ShipPos}

\* The shipping page right before output position k (k holds a mfg page).
ShipPageBefore(k) ==
    LET before == {h \in ShipPos : h < k}
        h0     == CHOOSE h \in before : \A g \in before : g <= h
    IN  Out[h0].idx

C2_MfgPagesFollowTheirOwnLabel ==
    (Merged /\ CompletePdf) =>
        \A k \in MfgPos :
            /\ \E h \in ShipPos : h < k
            /\ mfg[Out[k].idx + 1] = KeyOfShippingPage(ShipPageBefore(k))

LastShipPos ==
    IF ShipPos = {} THEN 0 ELSE CHOOSE h \in ShipPos : \A g \in ShipPos : g <= h

C5_KeyClaimedOnce ==
    Merged =>
        /\ \A h, g \in ShipPos :
               KeyOfShippingPage(Out[h].idx) = KeyOfShippingPage(Out[g].idx)
                   => h = g
        /\ \A k, l \in MfgPos : Out[k].idx = Out[l].idx => k = l

\* C5 witness: two shipping pages carry the Order ID of an order whose
\* manufacturing pages are in the output.
C5_Witness ==
    /\ Merged
    /\ CompletePdf
    /\ \E i, j \in ShippingIdx :
           /\ i < j
           /\ KeyOfShippingPage(i) # None
           /\ KeyOfShippingPage(i) = KeyOfShippingPage(j)
           /\ KeyOfShippingPage(i) \in TableOrders
           /\ Block(KeyOfShippingPage(i)) # {}
           /\ Block(KeyOfShippingPage(i)) \subseteq MfgEmitted

\* ----------------------------------------------------------------- C6
\* C6 as stated: the page a group is matched to is the first shipping page
\* (in PDF page order) that carries its key, and the merge places the
\* group after that page.
C6_FirstPageWins ==
    (Merged /\ CompletePdf) =>
        \A n \in 1..Len(report.mapping) :
            \A i \in ShippingIdx :
                KeyOfShippingPage(i) = report.mapping[n].key
                    => /\ report.mapping[n].val.shipping_page <= i
                       /\ \A j \in ShipEmitted :
                              KeyOfShippingPage(j) = KeyOfShippingPage(i) => j <= i

\* ----------------------------------------------------------------- C7
\* C7: STRICT mode with a failed validation returns (None, 0, 0, success =
\* False) without opening either PDF and without output; is_valid is true
\* exactly when missing_labels and unreadable_labels are empty, that is when
\* every order of the table has a shipping label and every shipping page was
\* read, and then the mapping has an entry for every expected order.
C7_StrictRefusesInvalidReport ==
    /\ (pc = "merged" /\ result.mode = "strict" /\ ~report.is_valid) =>
           /\ ~result.has_buffer
           /\ ~result.success
           /\ result.num_shipping = 0
           /\ result.num_manufacturing = 0
           /\ result.output = <<>>
           /\ readers = {}
    /\ pc # "start" =>
           /\ report.is_valid <=>
                  (report.missing_labels = <<>> /\ report.unreadable_labels = <<>>)
           /\ report.is_valid <=>
                  /\ \A o \in TableOrders : Labelled(o)
                  /\ \A i \in ShippingIdx : KeyOfShippingPage(i) # None
           /\ report.is_valid =>
                  \A o \in TableOrders : DictHas(report.mapping, o)

\* C7 witness: STRICT was asked for with a report that failed only because a
\* shipping page was unreadable, and the merge was refused.
C7_Witness ==
    /\ pc = "merged"
    /\ result.mode = "strict"
    /\ ~report.is_valid
    /\ report.missing_labels = <<>>
    /\ report.unreadable_labels # <<>>
    /\ ~result.has_buffer

\* ----------------------------------------------------------------- C8
\* C8 as stated: in FLEXIBLE mode the orders whose pages are in the output
\* are the matched orders, no page of an order in missing_labels is in the
\* output, and skipped_orders is missing_labels.
C8_FlexibleSkipsMissingOrders ==
    (Merged /\ CompletePdf /\ result.mode = "flexible") =>
        /\ {mfg[j + 1] : j \in MfgEmitted}
               = {o \in TableOrders : InList(o, report.matched_orders)}
        /\ \A j \in MfgEmitted : ~InList(mfg[j + 1], report.missing_labels)
        /\ result.skipped_orders = report.missing_labels

\* ----------------------------------------------------------------- C9
\* The manufacturing pages rendered from order o, in PDF order.
RECURSIVE PagesOfOrderInOrder(_, _)
PagesOfOrderInOrder(o, n) ==
    IF n = 0 THEN <<>>
    ELSE IF mfg[n] = o
         THEN Append(PagesOfOrderInOrder(o, n - 1), MfgPage(n - 1))
         ELSE PagesOfOrderInOrder(o, n - 1)

\* C9 as stated: for every matched group the output holds its shipping page
\* immediately followed by all of the group's manufacturing pages, in their
\* PDF order, and then the next shipping page or the end of the output.
C9_GroupContiguous ==
    (Merged /\ CompletePdf) =>
        \A n \in 1..Len(report.matched_orders) :
            LET o     == report.matched_orders[n]
                pages == PagesOfOrderInOrder(o, Len(mfg))
            IN  \E h \in ShipPos :
                    /\ KeyOfShippingPage(Out[h].idx) = o
                    /\ h + Len(pages) <= Len(Out)
                    /\ SubSeq(Out, h + 1, h + Len(pages)) = pages
                    /\ (h + Len(pages) < Len(Out)
                           => Out[h + Len(pages) + 1].src = "shipping")

MfgWarnings ==
    {n \in 1..Len(result.merge_log) : result.merge_log[n].kind = "mfg_out_of_range"}

\* C11: the counts a successful merge returns are the numbers of shipping
\* pages and of manufacturing pages written to the output document, also
\* when mapped manufacturing page indices are out of range and skipped.
C11_CountsMatchOutput ==
    Merged =>
        /\ result.num_shipping = Cardinality(ShipPos)
        /\ result.num_manufacturing = Cardinality(MfgPos)
        /\ result.num_shipping + result.num_manufacturing = Len(Out)

\* C11 witness: a merge that wrote shipping and manufacturing pages and
\* skipped a mapped manufacturing page index that is out of range.
C11_Witness ==
    /\ Merged
    /\ result.num_shipping > 0
    /\ result.num_manufacturing > 0
    /\ MfgWarnings # {}

\* ---------------------------------------------------------------- C12
\* The elements of a list, as a set.
ElementsOf(s) == {s[n] : n \in 1..Len(s)}

\* C12 as stated: matched_orders and missing_labels are disjoint and together
\* are expected_orders, which lists each Order ID of the table once in
\* first-appearance order; the keys of the mapping are matched_orders; and
\* every manufacturing page of a matched order that is in the output follows
\* the shipping page the report gives for that order.
C12_ReportClassifiesOrders ==
    (Merged /\ CompletePdf) =>
        /\ ElementsOf(report.matched_orders) \cap ElementsOf(report.missing_labels) = {}
        /\ ElementsOf(report.matched_orders) \cup ElementsOf(report.missing_labels)
               = ElementsOf(report.expected_orders)
        /\ Len(report.matched_orders) + Len(report.missing_labels)
               = Len(report.expected_orders)
        /\ ElementsOf(report.expected_orders) = TableOrders
        /\ Len(report.expected_orders) = Cardinality(TableOrders)
        /\ \A a, b \in 1..Len(report.expected_orders) :
               a < b => FirstRow(report.expected_orders[a])
                            < FirstRow(report.expected_orders[b])
        /\ [n \in 1..Len(report.mapping) |-> report.mapping[n].key]
               = report.matched_orders
        /\ \A k \in MfgPos :
               LET o == mfg[Out[k].idx + 1]
               IN  InList(o, report.matched_orders) =>
                       ShipPageBefore(k) = DictGet(report.mapping, o).shipping_page

\* ---------------------------------------------------------------- C19
\* The indices of the rows of order o when the rows are laid out order by
\* order, in first-appearance order (not clipped to the pages that exist).
RowBlock(o) ==
    {j \in 0..(Len(df) - 1) :
        /\ j >= BlockStart(o)
        /\ j < BlockStart(o) + Cardinality({i \in 1..Len(df) : df[i] = o})}

\* Sum of the lengths of the mfg_pages lists of the first n mapping entries.
RECURSIVE SumOfListLengths(_, _)
SumOfListLengths(mapping, n) ==
    IF n = 0 THEN 0
    ELSE SumOfListLengths(mapping, n - 1) + Len(mapping[n].val.mfg_pages)

\* The mfg_pages lists of two different mapping entries share no index.
ListsDisjoint ==
    \A a, b \in 1..Len(report.mapping) :
        a # b => ElementsOf(report.mapping[a].val.mfg_pages)
                     \cap ElementsOf(report.mapping[b].val.mfg_pages) = {}

\* C19 as stated: the page-index lists are pairwise disjoint and the sum of
\* their lengths is N, the number of rows of the order table (stated for a
\* report that maps at least one order).
C19_EveryPageHasAGroup ==
    (pc # "start" /\ report.mapping # <<>>) =>
        /\ ListsDisjoint
        /\ SumOfListLengths(report.mapping, Len(report.mapping)) = Len(df)

\* C19 (amended): there is one page-index list per order that has a shipping
\* label; the lists are pairwise disjoint blocks of consecutive indices
\* within 0..N-1, each as long as its order has rows and starting after the
\* rows of the orders that first appear earlier.  The sum of their lengths
\* is the number of rows of the orders that have a shipping label, so it is
\* N only when no order is missing; the indices of an order without a
\* shipping label belong to no list.
C19_ListsPartitionLabelledRows ==
    pc # "start" =>
        /\ ListsDisjoint
        /\ \A n \in 1..Len(report.mapping) :
               LET o == report.mapping[n].key
                   l == report.mapping[n].val.mfg_pages
               IN  /\ Labelled(o)
                   /\ ElementsOf(l) = RowBlock(o)
                   /\ Len(l) = Cardinality(RowBlock(o))
                   /\ \A a, b \in 1..Len(l) : a < b => l[a] < l[b]
        /\ SumOfListLengths(report.mapping, Len(report.mapping))
               = Cardinality({i \in 1..Len(df) : Labelled(df[i])})
        /\ (SumOfListLengths(report.mapping, Len(report.mapping)) = Len(df))
               <=> report.missing_labels = <<>>
        /\ \A o \in TableOrders :
               ~Labelled(o) =>
                   \A n \in 1..Len(report.mapping) :
                       RowBlock(o) \cap ElementsOf(report.mapping[n].val.mfg_pages) = {}

\* C19 witness: a validated table with a mapped order and a missing order,
\* whose page indices are in no list.
C19_Witness ==
    /\ pc # "start"
    /\ report.mapping # <<>>
    /\ report.missing_labels # <<>>
    /\ SumOfListLengths(report.mapping, Len(report.mapping)) < Len(df)

\* ---------------------------------------------------------------- C20
\* Mapped manufacturing page indices that are not in the manufacturing PDF.
MappedOutOfRange ==
    {<<n, a>> \in (1..Len(report.mapping)) \X (1..Len(df)) :
        /\ a <= Len(report.mapping[n].val.mfg_pages)
        /\ report.mapping[n].val.mfg_pages[a] >= Len(mfg)}

\* C20 as stated: with fewer manufacturing pages than rows, a merge that is
\* not refused returns success, the output holds the shipping page of every
\* mapped order and every existing manufacturing page of that order, and
\* the log holds one warning per mapped page index that is out of range.
C20_TruncatedPdfBestEffort ==
    (pc = "merged" /\ ~Refuses(report, result.mode) /\ Len(mfg) < Len(df)) =>
        /\ result.success
        /\ result.has_buffer
        /\ \A n \in 1..Len(report.mapping) :
               /\ report.mapping[n].val.shipping_page \in ShipEmitted
               /\ PagesOfOrder(report.mapping[n].key) \subseteq MfgEmitted
        /\ Cardinality(MfgWarnings) = Cardinality(MappedOutOfRange)

\* ---------------------------------------------------------------- C13
\* Uploads of which either file may fail to open as a PDF.
InitUnopenable ==
    /\ df \in SeqsOf(OrderIds, 1, MaxRows)
    /\ shipping \in SeqsOf(ShippingPages, 0, MaxShip)
    /\ mfg \in ManufacturingPdfs(df)
    /\ pc = "start"
    /\ report = EmptyReport
    /\ readers = {}
    /\ result = NoResult
    /\ unopenable \in SUBSET {"shipping", "manufacturing"}
    /\ session = NoSession
    /\ at = NoAirtable
    /\ up = NoUpload
    /\ text = NoText

SpecUnopenable == InitUnopenable /\ [][Next]_vars

\* C13: when the shipping PDF or the manufacturing PDF cannot be opened,
\* the merge returns a None buffer, counts 0 and 0 and success = False,
\* and no page at all in the output.
C13_UnopenableIsHardFailure ==
    (result.returned /\ unopenable # {}) =>
        /\ ~result.has_buffer
        /\ result.output = <<>>
        /\ result.num_shipping = 0
        /\ result.num_manufacturing = 0
        /\ ~result.success

\* C13 witness: a flexible merge with a mapped order whose shipping PDF was
\* opened and whose manufacturing PDF then failed to open.
C13_Witness ==
    /\ result.returned
    /\ result.mode = "flexible"
    /\ unopenable = {"manufacturing"}
    /\ report.mapping # <<>>
    /\ readers = {"shipping"}
    /\ ~result.has_buffer

\* ---------------------------------------------------------------- C14
\* A page on which page.extract_text() raises.
RaisingPage == [matches |-> <<>>, raises |-> TRUE, image |-> None]

\* A page with no extractable text that shows Order ID o in an embedded image.
ImagePage(o) == [matches |-> <<>>, raises |-> FALSE, image |-> o]

FaultyShippingPages ==
    ShippingPages \cup {RaisingPage} \cup {ImagePage(o) : o \in OrderIds}

\* Uploads whose shipping PDF opens but may hold raising or image-only
\* pages; the manufacturing PDF is the one generated from the table.
InitPages ==
    /\ df \in SeqsOf(OrderIds, 1, MaxRows)
    /\ shipping \in SeqsOf(FaultyShippingPages, 0, MaxShip)
    /\ mfg = generate_manufacturing_labels(df)
    /\ pc = "start"
    /\ report = EmptyReport
    /\ readers = {}
    /\ result = NoResult
    /\ unopenable = {}
    /\ session = NoSession
    /\ at = NoAirtable
    /\ up = NoUpload
    /\ text = NoText

SpecPages == InitPages /\ [][Next]_vars

\* Some page of the shipping PDF carries an Order ID in its text.
SomePageHasText == \E j \in 1..Len(shipping) : shipping[j].matches # <<>>

\* C14 as stated: after validation of a PDF with a readable page, a page
\* on which extraction raised is listed as unreadable, and every other
\* page's extracted key is in the returned labels and, when it is an order
\* of the table, matched.
C14_BadPageDoesNotAbort ==
    (pc # "start" /\ SomePageHasText) =>
        \A i \in 1..Len(shipping) :
            IF shipping[i].raises
            THEN InList(i - 1, report.unreadable_labels)
            ELSE /\ InList([page_idx |-> i - 1, order_id |-> KeyOfShippingPage(i - 1)],
                           report.shipping_labels)
                 /\ KeyOfShippingPage(i - 1) \in TableOrders =>
                        InList(KeyOfShippingPage(i - 1), report.matched_orders)

\* ---------------------------------------------------------------- C15
\* The 1-based positions of the pages that show their Order ID only in an
\* embedded image.
ImageOnlyPages ==
    {i \in 1..Len(shipping) : shipping[i].matches = <<>> /\ shipping[i].image # None}

Slip(k) == [i \in 1..k |-> i]

\* The user's k-th shipping PDF: one page for each of the orders 1..k.
ShipFile(k) == [i \in 1..k |-> TextPage(<<i>>)]

\* df of this rerun has a row of every order the results section looks up
\* (df[df['Order ID'] == order_id]['Buyer Name'].iloc[0] raises otherwise
\* and the script stops before the merge button).
RendersResults ==
    \A o \in ElementsOf(report.matched_orders) \cup ElementsOf(report.missing_labels) :
        o \in TableOrders

strict_enabled == report.is_valid

flexible_enabled == Len(report.matched_orders) > 0

\* Variant: the button is shown when either mode is available.
can_merge_any_mode(merge_mode) == strict_enabled \/ flexible_enabled

can_merge(merge_mode) ==
    \/ merge_mode = "strict" /\ strict_enabled
    \/ merge_mode = "flexible" /\ flexible_enabled

\* Steps 2 to 4 are rendered, up to the merge and Start Over buttons.
MergeButtonShown(merge_mode) ==
    /\ session.uploaded
    /\ session.shipping_labels_upload
    /\ session.manufacturing_labels_buffer
    /\ session.validation_done
    /\ session.validation_report
    /\ RendersResults
    /\ can_merge(merge_mode)

InitUI ==
    /\ df = <<>>
    /\ shipping = <<>>
    /\ mfg = <<>>
    /\ pc = "idle"
    /\ report = EmptyReport
    /\ readers = {}
    /\ result = NoResult
    /\ unopenable = {}
    /\ session = [active |-> TRUE, uploaded |-> FALSE,
                  shipping_labels_upload |-> FALSE,
                  manufacturing_labels_buffer |-> FALSE,
                  validation_done |-> FALSE, validation_report |-> FALSE]
    /\ at = NoAirtable
    /\ up = NoUpload
    /\ text = NoText

\* The user uploads or replaces the packing slip; the rerun parses it.
UploadSlip(k) ==
    /\ df' = Slip(k)
    /\ session' = [session EXCEPT !.uploaded = TRUE]
    /\ pc' = "slip"
    /\ result' = NoResult
    /\ readers' = {}
    /\ UNCHANGED <<shipping, mfg, report, unopenable, at, up, text>>

\* "Manufacturing Labels"
GenerateLabels ==
    /\ session.uploaded
    /\ mfg' = generate_manufacturing_labels(df)
    /\ session' = [session EXCEPT !.manufacturing_labels_buffer = TRUE]
    /\ pc' = "generate"
    /\ result' = NoResult
    /\ readers' = {}
    /\ UNCHANGED <<df, shipping, report, unopenable, at, up, text>>

\* The user uploads or replaces the shipping labels PDF.
UploadShipping(k) ==
    /\ session.uploaded
    /\ shipping' = ShipFile(k)
    /\ session' = [session EXCEPT !.shipping_labels_upload = TRUE]
    /\ pc' = "shipping"
    /\ result' = NoResult
    /\ readers' = {}
    /\ UNCHANGED <<df, mfg, report, unopenable, at, up, text>>

\* "Validate Shipping Labels"
ValidateClicked ==
    /\ session.uploaded
    /\ session.shipping_labels_upload
    /\ session.manufacturing_labels_buffer
    /\ report' = validate_label_mapping(shipping, df)
    /\ session' = [session EXCEPT !.validation_done = TRUE, !.validation_report = TRUE]
    /\ pc' = "validate"
    /\ result' = NoResult
    /\ readers' = {}
    /\ UNCHANGED <<df, shipping, mfg, unopenable, at, up, text>>

\* "CONFIRM AND MERGE LABELS" with merge_mode selected in the radio
MergeClicked(merge_mode) ==
    /\ MergeButtonShown(merge_mode)
    /\ result' = merge_shipping_and_manufacturing_labels_safe(shipping, mfg, report, merge_mode)
    /\ readers' = ReadersOpened(report, merge_mode)
    /\ pc' = "merge"
    /\ UNCHANGED <<df, shipping, mfg, report, unopenable, session, at, up, text>>

\* "Start Over"
StartOver ==
    /\ \E merge_mode \in Modes : MergeButtonShown(merge_mode)
    /\ session' = [session EXCEPT !.validation_done = FALSE, !.validation_report = FALSE]
    /\ report' = EmptyReport
    /\ pc' = "start_over"
    /\ result' = NoResult
    /\ readers' = {}
    /\ UNCHANGED <<df, shipping, mfg, unopenable, at, up, text>>

NextUI ==
    \/ \E k \in 1..MaxSlips : UploadSlip(k)
    \/ GenerateLabels
    \/ \E k \in 0..MaxShipFiles : UploadShipping(k)
    \/ ValidateClicked
    \/ \E merge_mode \in Modes : MergeClicked(merge_mode)
    \/ StartOver

SpecUI == InitUI /\ [][NextUI]_vars

\* ---------------------------------------------------------------- C17
\* C17: every step that invokes the merge starts in a session state with a
\* shipping PDF uploaded, manufacturing labels generated, validation done
\* with a report, and the mode it runs in enabled: strict needs is_valid,
\* flexible needs a matched order.
C17_MergeOnlyAfterValidation ==
    [][(pc' = "merge") =>
          /\ session.shipping_labels_upload
          /\ session.manufacturing_labels_buffer
          /\ session.validation_done
          /\ session.validation_report
          /\ result'.mode = "strict" => report.is_valid
          /\ result'.mode = "flexible" => Len(report.matched_orders) > 0]_vars

\* C17 witness: a flexible merge has run on a report that is not valid.
C17_Witness ==
    /\ pc = "merge"
    /\ result.returned
    /\ result.mode = "flexible"
    /\ ~report.is_valid
    /\ result.has_buffer

\* ---------------------------------------------------------------- C18
\* C18 as stated: every step that invokes the merge uses the report that
\* validation gives for the shipping PDF and the order table of that
\* moment, and the labels generated from that order table.
C18_MergeUsesCurrentInputs ==
    [][(pc' = "merge") =>
          /\ report = validate_label_mapping(shipping, df)
          /\ mfg = generate_manufacturing_labels(df)]_vars

\* ------------------------------------------------------ Airtable upload
\* What a request to Airtable comes back with: status 200, another status,
\* or an exception raised by requests.
Responses == {"200", "error", "exception"}

\* The Orders tables an upload can find: record i of the table holds the
\* Order ID orders[i]; here each order of a set once, in ascending order.
RECURSIVE AscendingSeq(_)
AscendingSeq(S) ==
    IF S = {} THEN <<>>
    ELSE LET m == CHOOSE x \in S : \A y \in S : x <= y
         IN  <<m>> \o AscendingSeq(S \ {m})

\* The elements of list not in the set seen, in order.
RECURSIVE NotIn(_, _)
NotIn(list, seen) ==
    IF list = <<>> THEN <<>>
    ELSE IF Head(list) \in seen THEN NotIn(Tail(list), seen)
         ELSE <<Head(list)>> \o NotIn(Tail(list), seen)

\* drop_duplicates(subset=['Order ID']) and ~isin(existing_order_ids)
new_orders_of(dataframe, existing_order_ids) ==
    NotIn(SeenOrders(dataframe, Len(dataframe)), existing_order_ids)

\* dataframe[dataframe['Order ID'] == order_id]: the rows (1-based) of an order
RECURSIVE order_items(_, _, _)
order_items(dataframe, order_id, n) ==
    IF n = 0 THEN <<>>
    ELSE IF dataframe[n] = order_id
         THEN Append(order_items(dataframe, order_id, n - 1), n)
         ELSE order_items(dataframe, order_id, n - 1)

IdleUpload ==
    [active |-> TRUE, phase |-> "idle", existing |-> {}, offset |-> 0,
     new_orders |-> <<>>, idx |-> 0, item |-> 0, airtable_order_id |-> None,
     orders_created |-> 0, line_items_created |-> 0, errors |-> <<>>,
     requests |-> <<>>, run |-> 1]

\* What the service can answer during the current run: the run after a
\* first one is made against a healthy service.
ResponsesNow == IF up.run = 1 THEN Responses ELSE {"200"}

InitUpload ==
    /\ df \in SeqsOf(OrderIds, 1, MaxRows)
    /\ shipping = <<>>
    /\ mfg = <<>>
    /\ pc = "airtable"
    /\ report = EmptyReport
    /\ readers = {}
    /\ result = NoResult
    /\ unopenable = {}
    /\ session = NoSession
    /\ \E S \in SUBSET OrderIds :
           at = [active |-> TRUE, orders |-> AscendingSeq(S), line_items |-> {}]
    /\ up = IdleUpload
    /\ text = NoText

\* "Upload to Airtable": upload_to_airtable(df) starts with the fetch.
StartUpload ==
    /\ up.phase = "idle"
    /\ up' = [up EXCEPT !.phase = "fetch"]
    /\ UNCHANGED <<df, shipping, mfg, pc, report, readers, result, unopenable, session, at, text>>

\* get_existing_order_ids has returned: the rest of upload_to_airtable up
\* to the first create request.
AfterFetch(existing_order_ids) ==
    LET new_orders == new_orders_of(df, existing_order_ids)
    IN  [up EXCEPT !.existing = existing_order_ids,
                   !.new_orders = new_orders,
                   !.idx = 1,
                   !.phase = IF Len(new_orders) = 0 THEN "done" ELSE "orders"]

\* One GET of the paginated loop of get_existing_order_ids.
FetchPage(response) ==
    /\ up.phase = "fetch"
    /\ response \in ResponsesNow
    /\ LET last    == IF up.offset + FetchPageSize < Len(at.orders)
                      THEN up.offset + FetchPageSize ELSE Len(at.orders)
           records == {at.orders[i] : i \in (up.offset + 1)..last}
       IN  up' = IF response = "200"
                 THEN IF last < Len(at.orders)
                      THEN [up EXCEPT !.existing = up.existing \cup records,
                                      !.offset = last]
                      ELSE AfterFetch(up.existing \cup records)
                 ELSE AfterFetch(up.existing)
    /\ UNCHANGED <<df, shipping, mfg, pc, report, readers, result, unopenable, session, at, text>>

\* Variant: the loop is left at the first order that added an error.
NextOrderUnlessError(u) ==
    [u EXCEPT !.idx = u.idx + 1, !.item = 0, !.airtable_order_id = None,
              !.phase = IF u.idx + 1 > Len(u.new_orders) \/ u.errors # <<>>
                        THEN "done" ELSE "orders"]

\* The loop moves on to the next new order, or returns.
NextOrder(u) ==
    [u EXCEPT !.idx = u.idx + 1, !.item = 0, !.airtable_order_id = None,
              !.phase = IF u.idx + 1 > Len(u.new_orders) THEN "done" ELSE "orders"]

\* The POST that creates the record of the current new order.
PostOrder(response) ==
    /\ up.phase = "orders"
    /\ response \in ResponsesNow
    /\ LET order_id == up.new_orders[up.idx]
           sent     == [up EXCEPT !.requests =
                           Append(@, [table |-> "orders", order_id |-> order_id,
                                      row |-> 0, link |-> None,
                                      response |-> response])]
       IN  IF response = "200"
           THEN /\ at' = [at EXCEPT !.orders = Append(@, order_id)]
                /\ up' = [sent EXCEPT !.airtable_order_id = Len(at.orders) + 1,
                                      !.orders_created = @ + 1,
                                      !.item = 1,
                                      !.phase = "items"]
           ELSE /\ at' = at
                /\ up' = NextOrder([sent EXCEPT !.errors =
                             Append(@, [kind |-> IF response = "error" THEN "order"
                                                 ELSE "exception",
                                        order_id |-> order_id])])
    /\ UNCHANGED <<df, shipping, mfg, pc, report, readers, result, unopenable, session, text>>

\* The inner loop moves on to the next row of the order, or to the next order.
NextItem(u, rows) ==
    IF u.item + 1 > Len(rows) THEN NextOrder(u) ELSE [u EXCEPT !.item = u.item + 1]

\* The POST that creates one line item of the order just created.
PostItem(response) ==
    /\ up.phase = "items"
    /\ response \in ResponsesNow
    /\ LET order_id == up.new_orders[up.idx]
           rows     == order_items(df, order_id, Len(df))
           row      == rows[up.item]
           sent     == [up EXCEPT !.requests =
                           Append(@, [table |-> "line_items", order_id |-> order_id,
                                      row |-> row, link |-> up.airtable_order_id,
                                      response |-> response])]
       IN  IF response = "200"
           THEN /\ at' = [at EXCEPT !.line_items =
                             @ \cup {[order |-> up.airtable_order_id, row |-> row]}]
                /\ up' = NextItem([sent EXCEPT !.line_items_created = @ + 1], rows)
           ELSE /\ at' = at
                /\ up' = IF response = "error"
                         THEN NextItem([sent EXCEPT !.errors =
                                  Append(@, [kind |-> "line_item", order_id |-> order_id])],
                                  rows)
                         ELSE NextOrder([sent EXCEPT !.errors =
                                  Append(@, [kind |-> "exception", order_id |-> order_id])])
    /\ UNCHANGED <<df, shipping, mfg, pc, report, readers, result, unopenable, session, text>>

NextUpload ==
    \/ StartUpload
    \/ \E response \in Responses : FetchPage(response)
    \/ \E response \in Responses : PostOrder(response)
    \/ \E response \in Responses : PostItem(response)

SpecUpload == InitUpload /\ [][NextUpload]_vars

\* ---------------------------------------------------------------- C16
\* The Order IDs the Orders table held when the upload started: its records
\* except the ones this upload created.
ExistingAtStart ==
    {at.orders[i] : i \in 1..(Len(at.orders) - up.orders_created)}

\* C16 as stated: no create request for an order record carries an Order
\* ID that the Orders table already held, whatever the fetch came back with.
C16_NoCreateForExistingOrder ==
    \A n \in 1..Len(up.requests) :
        up.requests[n].table = "orders" =>
            up.requests[n].order_id \notin ExistingAtStart

\* ------------------------------------------------------------ clean_text
\* A string is a sequence of characters, each a one-character string.
HexChars ==
    {"0", "1", "2", "3", "4", "5", "6", "7", "8", "9",
     "a", "b", "c", "d", "e", "f", "A", "B", "C", "D", "E", "F"}

\* What \s matches.
Whitespace == {" ", "\t", "\n", "\r"}

\* The length of the longest run of characters of the set S in s from
\* position i on.
RECURSIVE RunLength(_, _, _)
RunLength(s, i, S) ==
    IF i > Len(s) \/ s[i] \notin S THEN 0
    ELSE 1 + RunLength(s, i + 1, S)

\* The length of the match of \(#?[A-Fa-f0-9]{3,6}\) at position i of s,
\* 0 when there is none.
ColourCodeAt(s, i) ==
    IF s[i] # "(" THEN 0
    ELSE LET j == IF i + 1 <= Len(s) /\ s[i + 1] = "#" THEN i + 2 ELSE i + 1
             n == RunLength(s, j, HexChars)
         IN  IF n >= 3 /\ n <= 6 /\ j + n <= Len(s) /\ s[j + n] = ")"
             THEN j + n - i + 1
             ELSE 0

\* Token tok stands at position i of s.
TokenAt(s, i, tok) ==
    /\ i + Len(tok) - 1 <= Len(s)
    /\ SubSeq(s, i, i + Len(tok) - 1) = tok

\* The alternatives of the second pattern, in the order they are tried.
BoilerplateTokens ==
    << <<"■">>,
       <<"S", "e", "l", "l", "e", "r", " ", "N", "a", "m", "e">>,
       <<"Y", "o", "u", "r", " ", "O", "r", "d", "e", "r", "s">>,
       <<"R", "e", "t", "u", "r", "n", "i", "n", "g", " ", "y", "o", "u", "r",
         " ", "i", "t", "e", "m", ":">> >>

\* The length of the match of the alternation at position i of s, or 0.
BoilerplateAt(s, i) ==
    IF \E k \in 1..Len(BoilerplateTokens) : TokenAt(s, i, BoilerplateTokens[k])
    THEN Len(BoilerplateTokens[
             CHOOSE k \in 1..Len(BoilerplateTokens) :
                 /\ TokenAt(s, i, BoilerplateTokens[k])
                 /\ \A h \in 1..(k - 1) : ~TokenAt(s, i, BoilerplateTokens[h])])
    ELSE 0

\* re.IGNORECASE on the letters of "(Most popular)".
Lower(c) ==
    CASE c = "M" -> "m" [] c = "O" -> "o" [] c = "S" -> "s" [] c = "T" -> "t"
      [] c = "P" -> "p" [] c = "U" -> "u" [] c = "L" -> "l" [] c = "A" -> "a"
      [] c = "R" -> "r" [] OTHER -> c

MostPopular ==
    <<"(", "m", "o", "s", "t", " ", "p", "o", "p", "u", "l", "a", "r", ")">>

MostPopularAt(s, i) ==
    IF /\ i + Len(MostPopular) - 1 <= Len(s)
       /\ \A k \in 1..Len(MostPopular) : Lower(s[i + k - 1]) = MostPopular[k]
    THEN Len(MostPopular)
    ELSE 0

\* re.sub(pattern, "", s): the matches are found left to right, none
\* overlapping another, in the string as it was passed in.
RECURSIVE sub_colour_codes(_, _)
sub_colour_codes(s, i) ==
    IF i > Len(s) THEN <<>>
    ELSE IF ColourCodeAt(s, i) > 0 THEN sub_colour_codes(s, i + ColourCodeAt(s, i))
         ELSE <<s[i]>> \o sub_colour_codes(s, i + 1)

RECURSIVE sub_boilerplate(_, _)
sub_boilerplate(s, i) ==
    IF i > Len(s) THEN <<>>
    ELSE IF BoilerplateAt(s, i) > 0 THEN sub_boilerplate(s, i + BoilerplateAt(s, i))
         ELSE <<s[i]>> \o sub_boilerplate(s, i + 1)

RECURSIVE sub_most_popular(_, _)
sub_most_popular(s, i) ==
    IF i > Len(s) THEN <<>>
    ELSE IF MostPopularAt(s, i) > 0 THEN sub_most_popular(s, i + MostPopularAt(s, i))
         ELSE <<s[i]>> \o sub_most_popular(s, i + 1)

\* re.sub(r"\s{2,}", " ", s)
RECURSIVE sub_whitespace(_, _)
sub_whitespace(s, i) ==
    IF i > Len(s) THEN <<>>
    ELSE LET n == RunLength(s, i, Whitespace)
         IN  IF n >= 2 THEN <<" ">> \o sub_whitespace(s, i + n)
             ELSE <<s[i]>> \o sub_whitespace(s, i + 1)

\* s.strip()
RECURSIVE strip(_)
strip(s) ==
    IF s = <<>> THEN <<>>
    ELSE IF Head(s) \in Whitespace THEN strip(Tail(s))
    ELSE IF s[Len(s)] \in Whitespace THEN strip(SubSeq(s, 1, Len(s) - 1))
    ELSE s

clean_text(s) ==
    IF s = <<>> THEN <<>>
    ELSE strip(sub_whitespace(sub_most_popular(sub_boilerplate(sub_colour_codes(s, 1), 1), 1), 1))

\* The characters the strings passed to clean_text are made of: the parts
\* of a colour code, the boilerplate symbol and a blank.
TextChars == {"(", ")", "a", "■", " "}

InitText ==
    /\ df = <<>>
    /\ shipping = <<>>
    /\ mfg = <<>>
    /\ pc = "text"
    /\ report = EmptyReport
    /\ readers = {}
    /\ result = NoResult
    /\ unopenable = {}
    /\ session = NoSession
    /\ at = NoAirtable
    /\ up = NoUpload
    /\ \E x \in SeqsOf(TextChars, 0, MaxText) :
           text = [active |-> TRUE, calls |-> 0, input |-> x,
                   once |-> <<>>, twice |-> <<>>]

\* clean_text(x)
CleanInput ==
    /\ text.active
    /\ text.calls = 0
    /\ text' = [text EXCEPT !.calls = 1, !.once = clean_text(text.input)]
    /\ UNCHANGED <<df, shipping, mfg, pc, report, readers, result, unopenable, session, at, up>>

\* clean_text(clean_text(x))
CleanOutput ==
    /\ text.active
    /\ text.calls = 1
    /\ text' = [text EXCEPT !.calls = 2, !.twice = clean_text(text.once)]
    /\ UNCHANGED <<df, shipping, mfg, pc, report, readers, result, unopenable, session, at, up>>

NextText == CleanInput \/ CleanOutput

SpecText == InitText /\ [][NextText]_vars

\* ---------------------------------------------------------------- C21
\* C21 as stated: cleaning a cleaned string changes nothing,
\* clean_text(clean_text(x)) = clean_text(x) for every string x.
C21_CleanTextIdempotent ==
    (text.active /\ text.calls = 2) => text.twice = text.once

\* ---------------------------------------------------------------- C22
\* generate_labels of v7.3.1: the same loop, a page per row of the table.
generate_labels(dataframe) ==
    [i \in 1..Len(dataframe) |-> dataframe[i]]

\* C22: the labels generated from the order table have one page per row,
\* and page i is the one rendered from row i (the rows of a session's
\* packing slip are told apart by their Order IDs).
C22_OnePagePerRowInOrder ==
    (session.active /\ pc = "generate") =>
        /\ Len(mfg) = Len(df)
        /\ \A i \in 1..Len(df) : mfg[i] = df[i]
        /\ Len(generate_labels(df)) = Len(df)
        /\ \A i \in 1..Len(df) : generate_labels(df)[i] = df[i]

\* C22 witness: labels were generated from a table of several rows.
C22_Witness ==
    /\ session.active
    /\ pc = "generate"
    /\ Len(df) >= 2
    /\ Len(mfg) = Len(df)

\* ---------------------------------------------------------------- C23
\* The three classes of the report a shipping page (0-based i) can be in.
IsMappedPage(i) ==
    \E n \in 1..Len(report.mapping) : report.mapping[n].val.shipping_page = i

IsExtraPage(i) ==
    /\ KeyOfShippingPage(i) # None
    /\ InList(KeyOfShippingPage(i), report.extra_labels)

IsUnreadablePage(i) == InList(i, report.unreadable_labels)

\* C23 as stated: after validation every page of the shipping PDF is in
\* exactly one class: the page mapped to a matched order, a page whose
\* Order ID is in extra_labels, or a page listed in unreadable_labels.
C23_EveryShippingPageAccounted ==
    (pc # "start") =>
        \A i \in ShippingIdx :
            /\ IsMappedPage(i) \/ IsExtraPage(i) \/ IsUnreadablePage(i)
            /\ ~(IsMappedPage(i) /\ IsExtraPage(i))
            /\ ~(IsMappedPage(i) /\ IsUnreadablePage(i))
            /\ ~(IsExtraPage(i) /\ IsUnreadablePage(i))

\* ---------------------------------------------------------------- C24
\* No Order ID is carried by two pages of the shipping PDF.
NoRepeatedKey ==
    \A i, j \in ShippingIdx :
        (i # j /\ KeyOfShippingPage(i) # None) =>
            KeyOfShippingPage(i) # KeyOfShippingPage(j)

\* The shipping pages the report maps to an order.
MappedPages ==
    {report.mapping[n].val.shipping_page : n \in 1..Len(report.mapping)}

\* C24 as stated (on a PDF without a repeated Order ID): a valid report
\* means as many shipping pages as distinct orders, and a strict merge
\* emits every page of the shipping PDF.
C24_ValidMeansOneToOne ==
    (pc # "start" /\ report.is_valid /\ NoRepeatedKey) =>
        /\ Len(shipping) = Cardinality(TableOrders)
        /\ (pc = "merged" /\ result.mode = "strict") => ShipEmitted = ShippingIdx

\* C24 amended: a valid report maps every distinct order of the table to
\* a shipping page of its own that carries its Order ID, so the PDF has at
\* least as many pages as there are distinct orders, and a strict merge
\* emits exactly the mapped pages, one per distinct order.
C24_ValidMeansEveryOrderLabelled ==
    (pc # "start" /\ report.is_valid) =>
        /\ Len(report.mapping) = Cardinality(TableOrders)
        /\ \A o \in TableOrders :
               \E n \in 1..Len(report.mapping) :
                   /\ report.mapping[n].key = o
                   /\ KeyOfShippingPage(report.mapping[n].val.shipping_page) = o
        /\ Cardinality(MappedPages) = Cardinality(TableOrders)
        /\ Len(shipping) >= Cardinality(TableOrders)
        /\ (pc = "merged" /\ result.mode = "strict") =>
               /\ ShipEmitted = MappedPages
               /\ result.num_shipping = Cardinality(TableOrders)

\* C24 witness: a strict merge on a valid report whose shipping PDF has a
\* page of an order that is not in the table, which is not emitted.
C24_Witness ==
    /\ pc = "merged"
    /\ result.mode = "strict"
    /\ report.is_valid
    /\ result.has_buffer
    /\ report.extra_labels # <<>>
    /\ Len(shipping) > Cardinality(TableOrders)
    /\ ShipEmitted # ShippingIdx

\* ---------------------------------------------------------------- C25
\* The positions of the request log that hold a request to a table, and
\* those among them answered with a response of the set Rs.
RequestsTo(table, Rs) ==
    {n \in 1..Len(up.requests) :
        up.requests[n].table = table /\ up.requests[n].response \in Rs}

\* C25: a line-item request follows a create request of its order that was
\* answered 200 and links to the record that request created; no new order
\* is attempted twice and, when the upload returns, each was attempted;
\* orders_created and line_items_created count the 200 responses of their
\* table; errors holds one entry per response other than 200.
C25_FailuresIsolatedAndReported ==
    up.active =>
        /\ \A n \in RequestsTo("line_items", Responses) :
               \E m \in RequestsTo("orders", {"200"}) :
                   /\ m < n
                   /\ up.requests[m].order_id = up.requests[n].order_id
                   /\ up.requests[n].link \in 1..Len(at.orders)
                   /\ up.requests[n].link > Len(at.orders) - up.orders_created
                   /\ at.orders[up.requests[n].link] = up.requests[n].order_id
        /\ \A m, n \in RequestsTo("orders", Responses) :
               m # n => up.requests[m].order_id # up.requests[n].order_id
        /\ up.phase = "done" =>
               \A k \in 1..Len(up.new_orders) :
                   \E n \in RequestsTo("orders", Responses) :
                       up.requests[n].order_id = up.new_orders[k]
        /\ up.orders_created = Cardinality(RequestsTo("orders", {"200"}))
        /\ up.line_items_created = Cardinality(RequestsTo("line_items", {"200"}))
        /\ Len(up.errors) =
               Cardinality({n \in 1..Len(up.requests) : up.requests[n].response # "200"})

\* C25 witness: the upload returned after the create request of its first
\* new order failed and a later order was created with a line item.
C25_Witness ==
    /\ up.active
    /\ up.phase = "done"
    /\ Len(up.requests) >= 3
    /\ up.requests[1].table = "orders"
    /\ up.requests[1].response # "200"
    /\ up.orders_created >= 1
    /\ up.line_items_created >= 1
    /\ Len(up.errors) >= 1

\* ---------------------------------------------------------------- C26
\* An upload into an Airtable base that holds no record yet.
InitRerun ==
    /\ df \in SeqsOf(OrderIds, 1, MaxRows)
    /\ shipping = <<>>
    /\ mfg = <<>>
    /\ pc = "airtable"
    /\ report = EmptyReport
    /\ readers = {}
    /\ result = NoResult
    /\ unopenable = {}
    /\ session = NoSession
    /\ at = [active |-> TRUE, orders |-> <<>>, line_items |-> {}]
    /\ up = IdleUpload
    /\ text = NoText

\* "Upload to Airtable" is clicked again, on the same order table, after
\* the first upload has returned.
UploadAgain ==
    /\ up.phase = "done"
    /\ up.run = 1
    /\ up' = [IdleUpload EXCEPT !.phase = "fetch", !.run = 2]
    /\ UNCHANGED <<df, shipping, mfg, pc, report, readers, result, unopenable, session, at, text>>

NextRerun == NextUpload \/ UploadAgain

SpecRerun == InitRerun /\ [][NextRerun]_vars

\* Row r of the table has a line item linked to a record of its order.
LineItemCreated(r) ==
    \E li \in at.line_items : li.row = r /\ at.orders[li.order] = df[r]

\* C26 as stated: when the second upload, made against a healthy service,
\* has returned, every row of the order table has its line item in
\* Airtable and no Order ID has two order records.
C26_RerunRepairs ==
    (up.active /\ up.run = 2 /\ up.phase = "done") =>
        /\ \A r \in 1..Len(df) : LineItemCreated(r)
        /\ \A i, j \in 1..Len(at.orders) : i # j => at.orders[i] # at.orders[j]

====
